---------------------------- MODULE Spec2Model ----------------------------
(***************************************************************************)
(* Model of src/src/caffe/util/cpu_info.cpp:                               *)
(*   - caffe::cpu::Collection, the /proc/cpuinfo parser and its aggregates *)
(*   - caffe::cpu::OpenMpManager, the affinity selection and thread        *)
(*     binding built on it.                                                *)
(* Three specifications share the variables:                               *)
(*   SpecTopology  Collection::Collection() line by line                   *)
(*   SpecCoreSet   OpenMpManager::OpenMpManager() over arbitrary records   *)
(*   Spec          the OpenMpManager operations after construction         *)
(***************************************************************************)
EXTENDS Integers, Sequences, FiniteSets, TLC

VARIABLES
  \* ---- Collection
  pc,                     \* position inside Collection::Collection()
  linesRead,              \* lines fgets has returned so far
  lineBuffer,             \* the line parseCpuFileLine was last called with
  processors,             \* std::vector<Processor>
  currentProcessor,       \* 0 is NULL, k > 0 is &processors[k-1]
  processorSpeedMHz,
  atResolved,             \* history: a model name holding '@' has been parsed
  totalNumberOfSockets,
  totalNumberOfCpuCores,
  \* ---- the process around OpenMpManager
  environment,            \* names getenv() finds
  osAffinity,             \* what sched_getaffinity(0) reports, or failure
  remainderByZero,        \* what x % 0 does on this build: "trap" or "dividend"
  status,                 \* "ok", or how the process ended
  \* ---- OpenMpManager
  mgr,                    \* "none" before getInstance(), then "built"
  isAnyOpenMpEnvVarSpecified,
  isGpuEnabled,
  currentCpuSet,
  currentCoreSet,
  \* ---- OpenMP runtime and OS threads
  numThreads,             \* nthreads-var, set by omp_set_num_threads
  team,                   \* workers of the running parallel region
  bound,                  \* workers that have returned from their bind
  teamAffinity,           \* affinity mask of each team thread
  callerAffinity,         \* affinity mask of the thread calling Reserve
  lastCall                \* the operation entered last, and what it saw

collectionVars == <<pc, linesRead, lineBuffer, processors, currentProcessor,
                    processorSpeedMHz, atResolved, totalNumberOfSockets,
                    totalNumberOfCpuCores>>
processVars == <<environment, osAffinity, remainderByZero, status>>
managerVars == <<mgr, isAnyOpenMpEnvVarSpecified, isGpuEnabled, currentCpuSet,
                 currentCoreSet>>
threadVars == <<numThreads, team, bound, teamAffinity, callerAffinity, lastCall>>
vars == <<collectionVars, processVars, managerVars, threadVars>>

----------------------------------------------------------------------------
(* Bounds *)

\* lines the topology source holds at most
MaxLines == 5
\* records drawn for the constructor of OpenMpManager
MaxRecords == 3
\* records of the host the operations run on
MaxProcessors == 4
\* cpu cores a socket of that host reports at most
MaxCoresPerSocket == 2
\* logical processor IDs the OS may report are 0 .. MaxCpus-1
MaxCpus == 4
\* nthreads-var of the OpenMP runtime before the first limit is 1 .. MaxThreads
MaxThreads == 2

----------------------------------------------------------------------------
(* Processor *)

Processor == [processor |-> 0, physicalId |-> 0, siblings |-> 0,
              coreId |-> 0, cpuCores |-> 0]

----------------------------------------------------------------------------
(* Text: a line is a tuple of characters; a model name's words, numbers   *)
(* and units are kept as one element each.                                 *)

FieldProcessor == <<"p","r","o","c","e","s","s","o","r">>
FieldPhysicalId == <<"p","h","y","s","i","c","a","l"," ","i","d">>
FieldSiblings == <<"s","i","b","l","i","n","g","s">>
FieldCoreId == <<"c","o","r","e"," ","i","d">>
FieldCpuCores == <<"c","p","u"," ","c","o","r","e","s">>
FieldModelName == <<"m","o","d","e","l"," ","n","a","m","e">>

IsSpace(c) == c \in {" ", "\t", "\n"}

DigitValue == [c \in {"0","1","2","3","4","5","6","7","8","9"} |->
                CASE c = "0" -> 0 [] c = "1" -> 1 [] c = "2" -> 2
                  [] c = "3" -> 3 [] c = "4" -> 4 [] c = "5" -> 5
                  [] c = "6" -> 6 [] c = "7" -> 7 [] c = "8" -> 8
                  [] c = "9" -> 9]

\* strcspn(lineBuffer, ":"): the index of the first ':', or one past the end
RECURSIVE Strcspn(_, _)
Strcspn(text, i) ==
  IF i > Len(text) THEN i
  ELSE IF text[i] = ":" THEN i
  ELSE Strcspn(text, i + 1)

\* the text from index i on; empty when i is past the end
From(text, i) == IF i > Len(text) THEN <<>> ELSE SubSeq(text, i, Len(text))

RECURSIVE SkipSpaces(_)
SkipSpaces(text) ==
  IF text # <<>> /\ IsSpace(Head(text)) THEN SkipSpaces(Tail(text)) ELSE text

\* the leading decimal digits of text, as a number
RECURSIVE Digits(_, _)
Digits(text, acc) ==
  IF text # <<>> /\ Head(text) \in DOMAIN DigitValue
  THEN Digits(Tail(text), 10 * acc + DigitValue[Head(text)])
  ELSE acc

\* atol(text) stored into an unsigned
Atol(text) == Digits(SkipSpaces(text), 0)

BeginsWith(lineBuffer_, text) ==
  /\ Len(lineBuffer_) >= Len(text)
  /\ SubSeq(lineBuffer_, 1, Len(text)) = text

ParseInteger(text) == Atol(text)

----------------------------------------------------------------------------
(* extractProcessorSpeedFromModelName *)

\* one unit of a parsed double is 1/Scale
Scale == 10000

\* strtod of the numbers the model names carry, in 1/Scale
NumberValue == [n \in {"2.40", "2400", "0.933", "150", "0.0004", "99.5"} |->
                 CASE n = "2.40" -> 24000
                   [] n = "2400" -> 24000000
                   [] n = "0.933" -> 9330
                   [] n = "150" -> 1500000
                   [] n = "0.0004" -> 4
                   [] n = "99.5" -> 995000]

\* strstr(text, "@"): the text from the first '@' on, or <<>> for NULL
RECURSIVE Strstr(_)
Strstr(text) ==
  IF text = <<>> THEN <<>>
  ELSE IF Head(text) = "@" THEN text
  ELSE Strstr(Tail(text))

\* strtod(text, &unit): the value and where the number ends
StrToD(text) ==
  LET t == SkipSpaces(text) IN
    IF t # <<>> /\ Head(t) \in DOMAIN NumberValue
    THEN [speed |-> NumberValue[Head(t)], unit |-> Tail(t)]
    ELSE [speed |-> 0, unit |-> text]

\* (unsigned)(1000 * speed + 0.5)
RoundGHz(speed) == (speed + Scale \div 2000) \div (Scale \div 1000)
\* (unsigned)(speed + 0.5)
RoundMHz(speed) == (speed + Scale \div 2) \div Scale

\* variant: the test of processorSpeedMHz at line 144 is left out
ExtractProcessorSpeedFromModelNameMutant(speedMHz, valueString) ==
  LET text == Strstr(valueString) IN
    IF text = <<>> THEN speedMHz
    ELSE LET parsed == StrToD(Tail(text))
             unit == SkipSpaces(parsed.unit)
             isMHz == unit # <<>> /\ Head(unit) = "MHz"
             isGHz == unit # <<>> /\ Head(unit) = "GHz"
             isGHzPossible == parsed.speed < 100 * Scale
         IN IF isGHz \/ (isGHzPossible /\ ~isMHz)
            THEN RoundGHz(parsed.speed)
            ELSE RoundMHz(parsed.speed)

\* the new processorSpeedMHz
ExtractProcessorSpeedFromModelName(speedMHz, valueString) ==
  LET text == Strstr(valueString) IN
    IF text = <<>> \/ speedMHz # 0 THEN speedMHz
    ELSE LET parsed == StrToD(Tail(text))
             unit == SkipSpaces(parsed.unit)
             isMHz == unit # <<>> /\ Head(unit) = "MHz"
             isGHz == unit # <<>> /\ Head(unit) = "GHz"
             isGHzPossible == parsed.speed < 100 * Scale
         IN IF isGHz \/ (isGHzPossible /\ ~isMHz)
            THEN RoundGHz(parsed.speed)
            ELSE RoundMHz(parsed.speed)

----------------------------------------------------------------------------
(* parseValue: the record a field line leaves in *currentProcessor *)

ParseField(record, fieldName, valueString) ==
  IF BeginsWith(fieldName, FieldProcessor)
    THEN [record EXCEPT !.processor = ParseInteger(valueString)]
  ELSE IF BeginsWith(fieldName, FieldPhysicalId)
    THEN [record EXCEPT !.physicalId = ParseInteger(valueString)]
  ELSE IF BeginsWith(fieldName, FieldSiblings)
    THEN [record EXCEPT !.siblings = ParseInteger(valueString)]
  ELSE IF BeginsWith(fieldName, FieldCoreId)
    THEN [record EXCEPT !.coreId = ParseInteger(valueString)]
  ELSE IF BeginsWith(fieldName, FieldCpuCores)
    THEN [record EXCEPT !.cpuCores = ParseInteger(valueString)]
  ELSE record

\* whether parseValue reaches the model name branch
IsModelNameLine(fieldName) ==
  /\ ~BeginsWith(fieldName, FieldProcessor)
  /\ ~BeginsWith(fieldName, FieldPhysicalId)
  /\ ~BeginsWith(fieldName, FieldSiblings)
  /\ ~BeginsWith(fieldName, FieldCoreId)
  /\ ~BeginsWith(fieldName, FieldCpuCores)
  /\ BeginsWith(fieldName, FieldModelName)

----------------------------------------------------------------------------
(* collectBasicCpuInformation / updateCpuInformation *)

\* variant: the early return is left out
UpdateCpuInformationMutant(agg, processor, numberOfUniquePhysicalId) ==
  [sockets |-> numberOfUniquePhysicalId,
   cores |-> agg.cores + processor.cpuCores]

\* variant: = for +=
UpdateCpuInformationAssign(agg, processor, numberOfUniquePhysicalId) ==
  IF agg.sockets = numberOfUniquePhysicalId THEN agg
  ELSE [sockets |-> numberOfUniquePhysicalId, cores |-> processor.cpuCores]

UpdateCpuInformation(agg, processor, numberOfUniquePhysicalId) ==
  IF agg.sockets = numberOfUniquePhysicalId THEN agg
  ELSE [sockets |-> numberOfUniquePhysicalId,
        cores |-> agg.cores + processor.cpuCores]

RECURSIVE CollectFrom(_, _, _, _)
CollectFrom(procs, i, uniquePhysicalId, agg) ==
  IF i > Len(procs) THEN agg
  ELSE LET ids == uniquePhysicalId \cup {procs[i].physicalId} IN
         CollectFrom(procs, i + 1, ids,
                     UpdateCpuInformation(agg, procs[i], Cardinality(ids)))

\* the aggregates collectBasicCpuInformation leaves, starting from agg
CollectBasicCpuInformation(procs, agg) == CollectFrom(procs, 1, {}, agg)

----------------------------------------------------------------------------
(* The topology source: /proc/cpuinfo lines *)

Line(fieldName, valueString) ==
  fieldName \o <<"\t", ":", " ">> \o valueString \o <<"\n">>

InputLines ==
  { <<"\n">>,
    <<"f","p","u"," ","v","m","e","\n">>,
    Line(FieldProcessor, <<"1">>),
    Line(FieldPhysicalId, <<"1">>),
    Line(FieldSiblings, <<"2">>),
    Line(FieldCoreId, <<"1">>),
    Line(FieldCpuCores, <<"2">>),
    Line(FieldCpuCores, <<"1","x">>),
    Line(FieldCpuCores, <<"x">>),
    Line(<<"m","o","d","e","l">>, <<"8","5">>),
    Line(FieldModelName, <<"Xeon"," ","@"," ","2.40","GHz">>),
    Line(FieldModelName, <<"Model"," ","@"," ","2400","MHz">>),
    Line(FieldModelName, <<"Model"," ","@"," ","0.933">>),
    Line(FieldModelName, <<"Model"," ","@"," ","150">>),
    Line(FieldModelName, <<"Model"," ","@"," ","99.5"," ","MHz">>),
    Line(FieldModelName, <<"Model"," ","@"," ","0.0004","GHz">>),
    Line(FieldModelName, <<"Model"," ","@"," ","home">>),
    Line(FieldModelName, <<"Ryzen"," ","7">>) }

----------------------------------------------------------------------------
(* Collection::Collection(), step by step *)

\* fopen fails: parseCpuFile returns, nothing is parsed
OpenFails ==
  /\ pc = "open"
  /\ pc' = "collect"
  /\ UNCHANGED <<linesRead, lineBuffer, processors, currentProcessor,
                 processorSpeedMHz, atResolved, totalNumberOfSockets,
                 totalNumberOfCpuCores>>
  /\ UNCHANGED <<processVars, managerVars, threadVars>>

OpenSucceeds ==
  /\ pc = "open"
  /\ pc' = "parse"
  /\ UNCHANGED <<linesRead, lineBuffer, processors, currentProcessor,
                 processorSpeedMHz, atResolved, totalNumberOfSockets,
                 totalNumberOfCpuCores>>
  /\ UNCHANGED <<processVars, managerVars, threadVars>>

\* the vector after appendNewProcessor
AppendNewProcessor(procs) == Append(procs, Processor)

\* one fgets and parseCpuFileLine, parseValue included
ParseCpuFileLine(line) ==
  /\ pc = "parse"
  /\ linesRead < MaxLines
  /\ linesRead' = linesRead + 1
  /\ lineBuffer' = line
  /\ LET delimiterPosition == Strcspn(line, 1) IN
       IF delimiterPosition > Len(line)
       THEN /\ currentProcessor' = 0
            /\ UNCHANGED <<processors, processorSpeedMHz, atResolved>>
       ELSE LET valueString == From(line, delimiterPosition + 2)
                procs == IF currentProcessor = 0
                         THEN AppendNewProcessor(processors)
                         ELSE processors
                cur == IF currentProcessor = 0 THEN Len(procs)
                       ELSE currentProcessor
            IN /\ currentProcessor' = cur
               /\ processors' =
                    [procs EXCEPT ![cur] = ParseField(procs[cur], line, valueString)]
               /\ processorSpeedMHz' =
                    IF IsModelNameLine(line)
                    THEN ExtractProcessorSpeedFromModelName(processorSpeedMHz,
                                                            valueString)
                    ELSE processorSpeedMHz
               /\ atResolved' =
                    (atResolved \/ (IsModelNameLine(line)
                                     /\ Strstr(valueString) # <<>>))
  /\ UNCHANGED <<pc, totalNumberOfSockets, totalNumberOfCpuCores>>
  /\ UNCHANGED <<processVars, managerVars, threadVars>>

\* feof or a failed fgets, fclose, then collectBasicCpuInformation
EndOfFile ==
  /\ pc = "parse"
  /\ pc' = "collect"
  /\ UNCHANGED <<linesRead, lineBuffer, processors, currentProcessor,
                 processorSpeedMHz, atResolved, totalNumberOfSockets,
                 totalNumberOfCpuCores>>
  /\ UNCHANGED <<processVars, managerVars, threadVars>>

Collect ==
  /\ pc = "collect"
  /\ pc' = "built"
  /\ LET agg == CollectBasicCpuInformation(processors,
                   [sockets |-> totalNumberOfSockets,
                    cores |-> totalNumberOfCpuCores])
     IN /\ totalNumberOfSockets' = agg.sockets
        /\ totalNumberOfCpuCores' = agg.cores
  /\ UNCHANGED <<linesRead, lineBuffer, processors, currentProcessor,
                 processorSpeedMHz, atResolved>>
  /\ UNCHANGED <<processVars, managerVars, threadVars>>

----------------------------------------------------------------------------
(* OpenMpManager: the constructor's helpers *)

OpenMpEnvVars ==
  <<"OMP_CANCELLATION", "OMP_DISPLAY_ENV", "OMP_DEFAULT_DEVICE", "OMP_DYNAMIC",
    "OMP_MAX_ACTIVE_LEVELS", "OMP_MAX_TASK_PRIORITY", "OMP_NESTED",
    "OMP_NUM_THREADS", "OMP_PROC_BIND", "OMP_PLACES", "OMP_STACKSIZE",
    "OMP_SCHEDULE", "OMP_THREAD_LIMIT", "OMP_WAIT_POLICY", "GOMP_CPU_AFFINITY",
    "GOMP_DEBUG", "GOMP_STACKSIZE", "GOMP_SPINCOUNT", "GOMP_RTEMS_THREAD_POOLS",
    "KMP_AFFINITY", "KMP_NUM_THREADS", "MIC_KMP_AFFINITY",
    "MIC_OMP_NUM_THREADS", "MIC_OMP_PROC_BIND", "PHI_KMP_AFFINITY",
    "PHI_OMP_NUM_THREADS", "PHI_KMP_PLACE_THREADS", "MKL_NUM_THREADS",
    "MKL_DYNAMIC", "MKL_DOMAIN_NUM_THREADS">>

NumberOfOpenMpEnvVars == Len(OpenMpEnvVars)

\* the value getOpenMpEnvVars leaves in isAnyOpenMpEnvVarSpecified
RECURSIVE EnvVarsFrom(_, _, _)
EnvVarsFrom(i, env, found) ==
  IF i > NumberOfOpenMpEnvVars THEN found
  ELSE EnvVarsFrom(i + 1, env, found \/ OpenMpEnvVars[i] \in env)

GetOpenMpEnvVars(env) == EnvVarsFrom(1, env, FALSE)

GetNumberOfProcessors == Len(processors)
GetTotalNumberOfCpuCores == totalNumberOfCpuCores

GetDefaultCpuSet(numberOfProcessors) == 0..(numberOfProcessors - 1)

GetCurrentCpuSet(affinity, numberOfProcessors) ==
  IF affinity.ok THEN affinity.set ELSE GetDefaultCpuSet(numberOfProcessors)

\* processorId % totalNumberOfCpuCores; with a zero divisor, on a build that
\* does not trap, the remainder is the dividend
\* variant: / for %
CoreBucketMutant(processorId, total) ==
  IF total = 0 THEN processorId ELSE processorId \div total

CoreBucket(processorId, total) ==
  IF total = 0 THEN processorId ELSE processorId % total

\* the loop of getCurrentCoreSet from processorId on, over n processors
RECURSIVE CurrentCoreSetFrom(_, _, _, _, _, _)
CurrentCoreSetFrom(processorId, n, total, cpuSet, usedCoreSet, coreSet) ==
  IF processorId >= n THEN coreSet
  ELSE IF /\ processorId \in cpuSet
          /\ CoreBucket(processorId, total) \notin usedCoreSet
  THEN CurrentCoreSetFrom(processorId + 1, n, total, cpuSet,
                          usedCoreSet \cup {CoreBucket(processorId, total)},
                          coreSet \cup {processorId})
  ELSE CurrentCoreSetFrom(processorId + 1, n, total, cpuSet,
                          usedCoreSet, coreSet)

GetCurrentCoreSet(numberOfProcessors, total, cpuSet) ==
  CurrentCoreSetFrom(0, numberOfProcessors, total, cpuSet, {}, {})

\* whether getCurrentCoreSet evaluates processorId % 0
CoreSetDividesByZero(numberOfProcessors, total, cpuSet) ==
  /\ total = 0
  /\ \E processorId \in 0..(numberOfProcessors - 1) : processorId \in cpuSet

----------------------------------------------------------------------------
(* OpenMpManager: the helpers of the binding operations *)

\* variant: the GPU flag is not consulted
IsThreadsBindAllowedMutant == ~isAnyOpenMpEnvVarSpecified

IsThreadsBindAllowed == ~isAnyOpenMpEnvVarSpecified /\ ~isGpuEnabled

\* the return value of getPhysicalCoreId is a processor ID; Fatal stands for
\* reaching LOG(FATAL)
Fatal == -1

RECURSIVE PhysicalCoreIdFrom(_, _, _, _)
PhysicalCoreIdFrom(processorId, numberOfProcessors, coreSet, logicalCoreId) ==
  IF processorId >= numberOfProcessors THEN Fatal
  ELSE IF processorId \in coreSet
  THEN IF logicalCoreId = 0 THEN processorId
       ELSE PhysicalCoreIdFrom(processorId + 1, numberOfProcessors, coreSet,
                               logicalCoreId - 1)
  ELSE PhysicalCoreIdFrom(processorId + 1, numberOfProcessors, coreSet,
                          logicalCoreId)

\* variant: the index is not counted down
GetPhysicalCoreIdMutant(logicalCoreId) ==
  PhysicalCoreIdFrom(0, GetNumberOfProcessors, currentCoreSet, 0)

GetPhysicalCoreId(logicalCoreId) ==
  PhysicalCoreIdFrom(0, GetNumberOfProcessors, currentCoreSet, logicalCoreId)

\* the loop of selectAllCoreCpus from processorId on, for total > 0
RECURSIVE SelectFrom(_, _, _, _, _)
SelectFrom(processorId, numberOfProcessors, total, cpuSet, set) ==
  IF processorId >= numberOfProcessors THEN set
  ELSE SelectFrom(processorId + total, numberOfProcessors, total, cpuSet,
                  IF processorId \in cpuSet THEN set \cup {processorId} ELSE set)

SelectAllCoreCpus(set, physicalCoreId) ==
  SelectFrom(physicalCoreId % GetTotalNumberOfCpuCores, GetNumberOfProcessors,
             GetTotalNumberOfCpuCores, currentCpuSet, set)

\* variant: always the primary core
LogicalCoreToBindToMutant(totalNumberOfAvailableCores) == 0

\* logicalCoreToBindTo of bindCurrentThreadToNonPrimaryCoreIfPossible

LogicalCoreToBindTo(totalNumberOfAvailableCores) ==
  IF totalNumberOfAvailableCores > 1 THEN 1 ELSE 0

\* the nthreads-var values omp_set_num_threads(n) may leave: a value that is
\* not positive is implementation defined, kept or replaced by 1
OmpSetNumThreads(n) == IF n > 0 THEN {n} ELSE {numThreads, 1}

----------------------------------------------------------------------------
(* OpenMpManager: construction and operations *)

\* the first getInstance(): OpenMpManager::OpenMpManager()
GetInstance ==
  /\ pc = "built"
  /\ status = "ok"
  /\ mgr = "none"
  /\ LET cpuSet == GetCurrentCpuSet(osAffinity, GetNumberOfProcessors) IN
       /\ isAnyOpenMpEnvVarSpecified' = GetOpenMpEnvVars(environment)
       /\ currentCpuSet' = cpuSet
       /\ IF CoreSetDividesByZero(GetNumberOfProcessors,
                                  GetTotalNumberOfCpuCores, cpuSet)
          THEN \E outcome \in {"trap", "dividend"} :
                 /\ remainderByZero' = outcome
                 /\ IF outcome = "trap"
                    THEN /\ status' = "SIGFPE"
                         /\ UNCHANGED <<mgr, currentCoreSet>>
                    ELSE /\ currentCoreSet' =
                              GetCurrentCoreSet(GetNumberOfProcessors,
                                                GetTotalNumberOfCpuCores, cpuSet)
                         /\ mgr' = "built"
                         /\ UNCHANGED status
          ELSE /\ currentCoreSet' =
                    GetCurrentCoreSet(GetNumberOfProcessors,
                                      GetTotalNumberOfCpuCores, cpuSet)
               /\ mgr' = "built"
               /\ UNCHANGED <<remainderByZero, status>>
  /\ UNCHANGED <<isGpuEnabled, environment, osAffinity>>
  /\ UNCHANGED <<collectionVars, threadVars>>

SetGpuEnabled ==
  /\ mgr = "built" /\ status = "ok"
  /\ isGpuEnabled' = TRUE
  /\ lastCall' = "setGpuEnabled"
  /\ UNCHANGED <<mgr, isAnyOpenMpEnvVarSpecified, currentCpuSet, currentCoreSet>>
  /\ UNCHANGED <<numThreads, team, bound, teamAffinity, callerAffinity>>
  /\ UNCHANGED <<collectionVars, processVars>>

SetGpuDisabled ==
  /\ mgr = "built" /\ status = "ok"
  /\ isGpuEnabled' = FALSE
  /\ lastCall' = "setGpuDisabled"
  /\ UNCHANGED <<mgr, isAnyOpenMpEnvVarSpecified, currentCpuSet, currentCoreSet>>
  /\ UNCHANGED <<numThreads, team, bound, teamAffinity, callerAffinity>>
  /\ UNCHANGED <<collectionVars, processVars>>

\* bindCurrentThreadToLogicalCoreCpus included
BindCurrentThreadToNonPrimaryCoreIfPossible ==
  /\ mgr = "built" /\ status = "ok"
  /\ lastCall' = "bindCurrentThreadToNonPrimaryCoreIfPossible"
  /\ IF ~IsThreadsBindAllowed
     THEN UNCHANGED <<callerAffinity, status>>
     ELSE LET totalNumberOfAvailableCores == Cardinality(currentCoreSet)
              physicalCoreId ==
                GetPhysicalCoreId(LogicalCoreToBindTo(totalNumberOfAvailableCores))
          IN IF physicalCoreId = Fatal
             THEN /\ status' = "FATAL"
                  /\ UNCHANGED callerAffinity
             ELSE IF GetTotalNumberOfCpuCores = 0
             \* physicalCoreId % 0 is the dividend on this build, and
             \* processorId += 0 never leaves the loop
             THEN /\ status' = "hung"
                  /\ UNCHANGED callerAffinity
             ELSE /\ callerAffinity' = SelectAllCoreCpus({}, physicalCoreId)
                  /\ UNCHANGED status
  /\ UNCHANGED <<numThreads, team, bound, teamAffinity>>
  /\ UNCHANGED <<environment, osAffinity, remainderByZero>>
  /\ UNCHANGED <<collectionVars, managerVars>>

\* bindOpenMpThreads up to the start of the parallel region; the previous
\* region, if any, has ended
BindOpenMpThreads ==
  /\ mgr = "built" /\ status = "ok"
  /\ bound = team
  /\ lastCall' = "bindOpenMpThreads"
  /\ IF ~IsThreadsBindAllowed
     THEN UNCHANGED <<numThreads, team, bound>>
     ELSE \E limit \in OmpSetNumThreads(Cardinality(currentCoreSet)) :
            /\ numThreads' = limit
            /\ team' = 0..(limit - 1)
            /\ bound' = {}
  /\ UNCHANGED <<teamAffinity, callerAffinity>>
  /\ UNCHANGED <<collectionVars, processVars, managerVars>>

\* one worker of the parallel region: bindCurrentThreadToLogicalCoreCpu
BindCurrentThreadToLogicalCoreCpu(logicalCoreId) ==
  /\ mgr = "built" /\ status = "ok"
  /\ logicalCoreId \in team \ bound
  /\ LET physicalCoreId == GetPhysicalCoreId(logicalCoreId) IN
       IF physicalCoreId = Fatal
       THEN /\ status' = "FATAL"
            /\ UNCHANGED <<teamAffinity, bound>>
       ELSE /\ teamAffinity' =
                 [teamAffinity EXCEPT ![logicalCoreId] = {physicalCoreId}]
            /\ bound' = bound \cup {logicalCoreId}
            /\ UNCHANGED status
  /\ UNCHANGED <<numThreads, team, callerAffinity, lastCall>>
  /\ UNCHANGED <<environment, osAffinity, remainderByZero>>
  /\ UNCHANGED <<collectionVars, managerVars>>

----------------------------------------------------------------------------
(* The process the manager is built in *)

EnvironmentNames == {"HOME", "MKL_DOMAIN_NUM_THREADS"}

CpuIds == 0..(MaxCpus - 1)

\* sched_getaffinity fails, or reports a nonempty set of processors
OsAffinities ==
  {[ok |-> FALSE, set |-> {}]}
    \cup {[ok |-> TRUE, set |-> S] : S \in (SUBSET CpuIds) \ {{}}}

\* the mask a thread starts with
InitialMask == IF osAffinity.ok THEN osAffinity.set ELSE CpuIds

ThreadIds == 0..((IF MaxProcessors > MaxThreads THEN MaxProcessors
                  ELSE MaxThreads) - 1)

InitProcess(environments, threadLimits) ==
  /\ environment \in environments
  /\ osAffinity \in OsAffinities
  /\ remainderByZero = "unobserved"
  /\ status = "ok"
  /\ mgr = "none"
  /\ isAnyOpenMpEnvVarSpecified = FALSE
  /\ isGpuEnabled = FALSE
  /\ currentCpuSet = {}
  /\ currentCoreSet = {}
  /\ numThreads \in threadLimits
  /\ team = {}
  /\ bound = {}
  /\ teamAffinity = [t \in ThreadIds |-> InitialMask]
  /\ callerAffinity = InitialMask
  /\ lastCall = "none"

\* the Collection after its constructor, holding procs
BuiltCollection(procs) ==
  /\ pc = "built"
  /\ linesRead = 0
  /\ lineBuffer = <<>>
  /\ processors = procs
  /\ currentProcessor = 0
  /\ processorSpeedMHz = 0
  /\ atResolved = FALSE
  /\ LET agg == CollectBasicCpuInformation(procs, [sockets |-> 0, cores |-> 0])
     IN /\ totalNumberOfSockets = agg.sockets
        /\ totalNumberOfCpuCores = agg.cores

----------------------------------------------------------------------------
(* SpecCoreSet: the constructor of OpenMpManager over arbitrary records *)

RecordValues ==
  [processor : {0}, physicalId : {0, 1}, siblings : {0},
   coreId : {0, 1}, cpuCores : {0, 1, 2}]

RecordLists == UNION {[1..n -> RecordValues] : n \in 0..MaxRecords}

InitCoreSet ==
  /\ \E procs \in RecordLists :
       BuiltCollection([i \in 1..Len(procs) |->
                         [procs[i] EXCEPT !.processor = i - 1]])
  /\ InitProcess({{}}, {1})

NextCoreSet == GetInstance

SpecCoreSet == InitCoreSet /\ [][NextCoreSet]_vars

----------------------------------------------------------------------------
(* Spec: the operations of OpenMpManager on a single-socket host *)

\* numberOfProcessors records of one socket that reports coresPerSocket cores
SingleSocketHost(numberOfProcessors, coresPerSocket) ==
  [i \in 1..numberOfProcessors |->
     [processor |-> i - 1, physicalId |-> 0,
      siblings |-> numberOfProcessors,
      coreId |-> IF coresPerSocket = 0 THEN 0 ELSE (i - 1) % coresPerSocket,
      cpuCores |-> coresPerSocket]]

Init ==
  /\ \E n \in 0..MaxProcessors, c \in 0..MaxCoresPerSocket :
       BuiltCollection(SingleSocketHost(n, c))
  /\ InitProcess(SUBSET EnvironmentNames, 1..MaxThreads)

Next ==
  \/ GetInstance
  \/ SetGpuEnabled
  \/ SetGpuDisabled
  \/ BindCurrentThreadToNonPrimaryCoreIfPossible
  \/ BindOpenMpThreads
  \/ \E logicalCoreId \in ThreadIds :
       BindCurrentThreadToLogicalCoreCpu(logicalCoreId)

Spec == Init /\ [][Next]_vars

----------------------------------------------------------------------------
(* SpecTopology: the construction of the Collection singleton *)

\* the process before OpenMpManager::getInstance() is first called
NoManager ==
  /\ environment = {}
  /\ osAffinity = [ok |-> FALSE, set |-> {}]
  /\ remainderByZero = "unobserved"
  /\ status = "ok"
  /\ mgr = "none"
  /\ isAnyOpenMpEnvVarSpecified = FALSE
  /\ isGpuEnabled = FALSE
  /\ currentCpuSet = {}
  /\ currentCoreSet = {}
  /\ numThreads = 1
  /\ team = {}
  /\ bound = {}
  /\ teamAffinity = <<>>
  /\ callerAffinity = {}
  /\ lastCall = "none"

InitTopology ==
  /\ pc = "open"
  /\ linesRead = 0
  /\ lineBuffer = <<>>
  /\ processors = <<>>
  /\ currentProcessor = 0
  /\ processorSpeedMHz = 0
  /\ atResolved = FALSE
  /\ totalNumberOfSockets = 0
  /\ totalNumberOfCpuCores = 0
  /\ NoManager

NextTopology ==
  \/ OpenFails
  \/ OpenSucceeds
  \/ \E line \in InputLines : ParseCpuFileLine(line)
  \/ EndOfFile
  \/ Collect

SpecTopology == InitTopology /\ [][NextTopology]_vars

----------------------------------------------------------------------------
(* Claims about the Collection, checked under SpecTopology *)

PhysicalIdsOf(procs) == {procs[i].physicalId : i \in 1..Len(procs)}

\* the records that are the first of their physicalId in source order
FirstOfSocket(procs) ==
  {i \in 1..Len(procs) :
     \A j \in 1..(i - 1) : procs[j].physicalId # procs[i].physicalId}

RECURSIVE SumCpuCores(_, _)
SumCpuCores(procs, S) ==
  IF S = {} THEN 0
  ELSE LET i == CHOOSE x \in S : TRUE IN
         procs[i].cpuCores + SumCpuCores(procs, S \ {i})

\* C1: after collectBasicCpuInformation the socket count is the number of
\* distinct physicalId values and the core count is the sum of cpuCores over
\* the first record of each physicalId.
C1_SocketsAndCores ==
  pc = "built" =>
    /\ totalNumberOfSockets = Cardinality(PhysicalIdsOf(processors))
    /\ totalNumberOfCpuCores = SumCpuCores(processors, FirstOfSocket(processors))

\* two sockets, and a later record of a counted socket that carries its own
\* nonzero cpuCores
C1_Witness ==
  /\ pc = "built"
  /\ totalNumberOfSockets >= 2
  /\ totalNumberOfCpuCores > 0
  /\ \E i \in 1..Len(processors) :
       i \notin FirstOfSocket(processors) /\ processors[i].cpuCores # 0

\* the value the line in lineBuffer carries
ValueOf(line) == From(line, Strcspn(line, 1) + 2)

HasAt(line) ==
  /\ Strcspn(line, 1) <= Len(line)
  /\ IsModelNameLine(line)
  /\ Strstr(ValueOf(line)) # <<>>

NoAtModelName(line) ==
  /\ Strcspn(line, 1) <= Len(line)
  /\ IsModelNameLine(line)
  /\ Strstr(ValueOf(line)) = <<>>

\* C8 as claimed: once a model name holding '@' has been parsed, no later
\* line changes processorSpeedMHz, whatever that first one produced; a model
\* name without '@' never changes it.
C8_FirstAtDecides ==
  [][ /\ atResolved => processorSpeedMHz' = processorSpeedMHz
      /\ (linesRead' # linesRead /\ NoAtModelName(lineBuffer'))
           => processorSpeedMHz' = processorSpeedMHz ]_vars

\* C8 as amended: once processorSpeedMHz is nonzero no later line changes
\* it; a model name without '@' never changes it.
C8_NonzeroSpeedIsKept ==
  [][ /\ processorSpeedMHz # 0 => processorSpeedMHz' = processorSpeedMHz
      /\ (linesRead' # linesRead /\ NoAtModelName(lineBuffer'))
           => processorSpeedMHz' = processorSpeedMHz ]_vars

\* a model name holding '@' was parsed after the speed was set, and alone
\* it would have given another nonzero speed
C8_Witness ==
  /\ atResolved
  /\ processorSpeedMHz # 0
  /\ HasAt(lineBuffer)
  /\ ExtractProcessorSpeedFromModelName(0, ValueOf(lineBuffer))
       \notin {0, processorSpeedMHz}

\* C9 as claimed: any record implies records >= sockets, and one known
\* core count implies cores >= sockets.
C9_CoresAtLeastSockets ==
  pc = "built" =>
    /\ Len(processors) > 0 => Len(processors) >= totalNumberOfSockets
    /\ (\E i \in FirstOfSocket(processors) : processors[i].cpuCores # 0)
         => totalNumberOfCpuCores >= totalNumberOfSockets

\* C9 as amended: any record implies records >= sockets, and cores >= sockets
\* when the first record of every socket has a nonzero cpuCores.
C9_CoresAtLeastSocketsWhenAllKnown ==
  pc = "built" =>
    /\ Len(processors) > 0 => Len(processors) >= totalNumberOfSockets
    /\ (\A i \in FirstOfSocket(processors) : processors[i].cpuCores # 0)
         => totalNumberOfCpuCores >= totalNumberOfSockets

\* two sockets whose first records both carry a core count
C9_Witness ==
  /\ pc = "built"
  /\ totalNumberOfSockets = 2
  /\ Len(processors) >= totalNumberOfSockets
  /\ \A i \in FirstOfSocket(processors) : processors[i].cpuCores # 0

----------------------------------------------------------------------------
(* Claims about the core set, checked under SpecCoreSet *)

\* the physical core of the record getProcessor(processorId) returns
PhysicalCoreOf(processorId) ==
  <<processors[processorId + 1].physicalId, processors[processorId + 1].coreId>>

\* the permitted processors the topology has a record for
KnownPermitted == {p \in currentCpuSet : p < Len(processors)}

\* C4: no two members of currentCoreSet have the same (physicalId, coreId),
\* and every physical core with a permitted processor has a member. Stated
\* where totalNumberOfCpuCores > 0, so that no remainder by zero (C5) is
\* involved.
C4_OnePerPhysicalCore ==
  (mgr = "built" /\ totalNumberOfCpuCores > 0) =>
    /\ \A a, b \in currentCoreSet :
         a # b => PhysicalCoreOf(a) # PhysicalCoreOf(b)
    /\ \A p \in KnownPermitted :
         \E r \in currentCoreSet : PhysicalCoreOf(r) = PhysicalCoreOf(p)

\* C5: with totalNumberOfCpuCores = 0 the constructor never evaluates a
\* remainder by zero and ends with currentCoreSet empty.
C5_NoRemainderByZero ==
  totalNumberOfCpuCores = 0 =>
    /\ remainderByZero = "unobserved"
    /\ status = "ok"
    /\ mgr = "built" => currentCoreSet = {}

\* the lowest member of each modulo-total bucket of S
LowestOfBuckets(S, total) ==
  {p \in S : \A q \in S : q % total = p % total => p <= q}

\* C6 as claimed: for totalNumberOfCpuCores > 0, currentCoreSet is the lowest
\* permitted ID of every bucket that holds a permitted ID, a subset of
\* currentCpuSet with at most totalNumberOfCpuCores members.
C6_LowestPermittedPerBucket ==
  (mgr = "built" /\ totalNumberOfCpuCores > 0) =>
    /\ currentCoreSet = LowestOfBuckets(currentCpuSet, totalNumberOfCpuCores)
    /\ currentCoreSet \subseteq currentCpuSet
    /\ Cardinality(currentCoreSet) <= totalNumberOfCpuCores

\* C6 as amended: the same over the permitted IDs below the number of
\* records.
C6_LowestKnownPermittedPerBucket ==
  (mgr = "built" /\ totalNumberOfCpuCores > 0) =>
    /\ currentCoreSet = LowestOfBuckets(KnownPermitted, totalNumberOfCpuCores)
    /\ currentCoreSet \subseteq currentCpuSet
    /\ Cardinality(currentCoreSet) <= totalNumberOfCpuCores

\* two buckets are represented, a permitted processor is skipped as the
\* second of its bucket, and a permitted ID has no record
C6_Witness ==
  /\ mgr = "built"
  /\ totalNumberOfCpuCores > 0
  /\ Cardinality(currentCoreSet) >= 2
  /\ KnownPermitted \ currentCoreSet # {}
  /\ currentCpuSet \ KnownPermitted # {}

----------------------------------------------------------------------------
(* Claims about the operations, checked under Spec *)

Listed == {OpenMpEnvVars[i] : i \in 1..Len(OpenMpEnvVars)}

BindCalls == {"bindOpenMpThreads", "bindCurrentThreadToNonPrimaryCoreIfPossible"}

\* C2: isThreadsBindAllowed is true exactly when no listed variable is in
\* the environment and the GPU flag, as the last setGpu call left it, is
\* false; a bind operation entered while it is false changes no affinity
\* mask and not the worker limit.
C2_BindPolicy ==
  /\ [](mgr = "built" =>
          /\ IsThreadsBindAllowed
               <=> (environment \cap Listed = {} /\ ~isGpuEnabled)
          /\ lastCall = "setGpuEnabled" => isGpuEnabled
          /\ lastCall = "setGpuDisabled" => ~isGpuEnabled)
  /\ [][ (/\ ~IsThreadsBindAllowed
           /\ \/ BindOpenMpThreads
              \/ BindCurrentThreadToNonPrimaryCoreIfPossible)
           => UNCHANGED <<teamAffinity, callerAffinity, numThreads, team>> ]_vars

\* a bind operation was entered with no listed variable set and the GPU on
C2_Witness ==
  /\ mgr = "built"
  /\ lastCall \in BindCalls
  /\ environment \cap Listed = {}
  /\ isGpuEnabled
  /\ currentCoreSet # {}

\* the member of S with k members of S below it
KthMember(S, k) == CHOOSE p \in S : Cardinality({q \in S : q < p}) = k

FanOutDone == status = "ok" /\ team # {} /\ bound = team

Congruent(a, b, m) == IF m = 0 THEN a = b ELSE a % m = b % m

ReserveDone ==
  /\ status = "ok"
  /\ lastCall = "bindCurrentThreadToNonPrimaryCoreIfPossible"
  /\ IsThreadsBindAllowed
  /\ currentCoreSet # {}

ReservedRepresentative ==
  KthMember(currentCoreSet, IF Cardinality(currentCoreSet) = 1 THEN 0 ELSE 1)

\* C7 as claimed: after Reserve the caller's mask is every permitted ID
\* congruent modulo totalNumberOfCpuCores to representative 0 (one
\* representative) or 1 (two or more); it holds the representative and
\* nothing outside currentCpuSet.
C7_ReserveAllSiblings ==
  ReserveDone =>
    /\ callerAffinity =
         {p \in currentCpuSet :
            Congruent(p, ReservedRepresentative, totalNumberOfCpuCores)}
    /\ ReservedRepresentative \in callerAffinity
    /\ callerAffinity \subseteq currentCpuSet

\* C7 as amended: the siblings are the permitted IDs below the number of
\* records.
C7_ReserveKnownSiblings ==
  ReserveDone =>
    /\ callerAffinity =
         {p \in KnownPermitted :
            Congruent(p, ReservedRepresentative, totalNumberOfCpuCores)}
    /\ ReservedRepresentative \in callerAffinity
    /\ callerAffinity \subseteq currentCpuSet

\* Reserve took representative 1 and bound to it and a sibling
C7_Witness ==
  /\ ReserveDone
  /\ Cardinality(currentCoreSet) >= 2
  /\ Cardinality(callerAffinity) >= 2
  /\ ReservedRepresentative # KthMember(currentCoreSet, 0)

\* C10: getPhysicalCoreId is only asked for an index below
\* |currentCoreSet|, so LOG(FATAL) is never reached.
C10_NeverFatal == status # "FATAL"

============================================================================
